---- MODULE Spec2Model ----
(***************************************************************************)
(* State-machine model of the premium-entitlement backend (src/index.js,   *)
(* models/User.js, models/Transaction.js).                                 *)
(*                                                                         *)
(* Every "await" of a route handler is a step boundary: one action is the  *)
(* arrival of the awaited result (a store read or write, a provider reply) *)
(* together with the synchronous code that runs up to the next await.      *)
(* Requests are numbered in their order of arrival and may interleave      *)
(* freely between awaits.  Time is counted in ticks of half a day.         *)
(***************************************************************************)
EXTENDS Integers, Sequences, FiniteSets, TLC

\* ------------------------------------------------------------- bounds
MaxReq == 2        \* requests handled in one behaviour
MaxClock == 1      \* the clock runs from 0 to MaxClock ticks
MaxAmount == 5     \* payment amounts are 0..MaxAmount
MaxRemExpiry == 12 \* RemSpec: expiries are 0..MaxRemExpiry ticks, or null
MaxRemClock == 9   \* RemSpec: the clock runs from 0 to MaxRemClock ticks

\* ---------------------------------------------------- program constants
DayMs == 2         \* ticks in one day (index.js:49, 86400000 ms)
BlockSize == 2     \* amount of one block (index.js:165)
BlockDays == 30    \* days granted per block (index.js:166)
TxLimit == 100     \* cap of the transaction history (index.js:98)

Null == -1         \* premium_expiry: null (User.js:7); dates are >= 0

Req == 1..MaxReq
UIDs == {"u1", "u2"}
DefaultName == "Pioneer"

\* ----------------------------------------------------------- documents
\* A User document (User.js:3-8); present = FALSE is "no document".
NoDoc == [present |-> FALSE, username |-> "", is_premium |-> FALSE,
          premium_expiry |-> Null]
NewUser(username) == [present |-> TRUE, username |-> username,
                      is_premium |-> FALSE, premium_expiry |-> Null]

\* ------------------------------------------------------ pure helpers
\* Math.ceil of a / b for b > 0 (\div is the floor).
Ceil(a, b) == -((-a) \div b)

Max(a, b) == IF a >= b THEN a ELSE b

\* The difference in days rounded down instead of up.
daysBetween_Floor(a, b) == (a - b) \div DayMs

daysBetween(a, b) == Ceil(a - b, DayMs)

\* The remaining days without the Math.max(0, d) floor.
computeRemainingDays_Unfloored(expiry, now) ==
  IF expiry = Null THEN 0 ELSE daysBetween(expiry, now)

computeRemainingDays(expiry, now) ==
  IF expiry = Null THEN 0 ELSE Max(0, daysBetween(expiry, now))

\* The grant with the block count rounded up instead of down.
ComputeGrant_RoundsUp(amount) ==
  ((amount + BlockSize - 1) \div BlockSize) * BlockDays

\* blocks * 30 with blocks = Math.floor(amount / 2)
ComputeGrant(amount) == (amount \div BlockSize) * BlockDays

\* baseDate of the completion: the document's expiry when it is premium and
\* the expiry is strictly in the future, else the current time.
BaseDate(doc, now) ==
  IF doc.is_premium /\ doc.premium_expiry # Null /\ doc.premium_expiry > now
  THEN doc.premium_expiry
  ELSE now

NewExpiry(doc, now, addDays) == BaseDate(doc, now) + addDays * DayMs

\* The $set that extends the expiry and leaves is_premium as it was read.
UpdateSet_KeepsFlag(doc, addDays, newExpiry) ==
  [is_premium |-> doc.is_premium,
   premium_expiry |-> IF addDays > 0 THEN newExpiry ELSE doc.premium_expiry]

\* The $set that raises the flag and leaves premium_expiry as it was read.
UpdateSet_DropsExpiry(doc, addDays, newExpiry) ==
  [is_premium |-> (addDays > 0) \/ doc.is_premium,
   premium_expiry |-> doc.premium_expiry]

\* The $set of User.updateOne, built from the document read earlier.
UpdateSet(doc, addDays, newExpiry) ==
  [is_premium |-> (addDays > 0) \/ doc.is_premium,
   premium_expiry |-> IF addDays > 0 THEN newExpiry ELSE doc.premium_expiry]

\* a || b || c on strings: the first non-empty one.
Or3(a, b, c) == IF a # "" THEN a ELSE IF b # "" THEN b ELSE c

ResolveUid(payment) == Or3(payment.from_uid, payment.actor_uid, payment.user_uid)

VerifyUid(me, user) == Or3(me.uid, user.uid, "")

VerifyUsername(me, user) == Or3(user.username, me.username, DefaultName)

\* premium: !!doc.is_premium && remainingDays > 0
PremiumActive(doc, remainingDays) == doc.is_premium /\ remainingDays > 0

\* Tx.find({pi_uid}).sort({createdAt: -1}).limit(100): the user's records,
\* newest first; records of equal createdAt stay in insertion order.
RECURSIVE InsertDesc(_, _)
InsertDesc(t, s) ==
  IF s = << >> THEN << t >>
  ELSE IF t.createdAt > Head(s).createdAt THEN << t >> \o s
  ELSE << Head(s) >> \o InsertDesc(t, Tail(s))

RECURSIVE SortDesc(_)
SortDesc(s) ==
  IF s = << >> THEN << >>
  ELSE InsertDesc(s[Len(s)], SortDesc(SubSeq(s, 1, Len(s) - 1)))

Limit(s, n) == IF Len(s) <= n THEN s ELSE SubSeq(s, 1, n)

\* txs.map(t => ({paymentId, amount, status, txid, processedAt}))
TxView(t) == [paymentId |-> t.paymentId, amount |-> t.amount,
              status |-> t.status, txid |-> t.txid,
              processedAt |-> t.createdAt]

TxFind(all, uid) ==
  LET mine == SelectSeq(all, LAMBDA t : t.pi_uid = uid)
      top  == Limit(SortDesc(mine), TxLimit)
  IN  [i \in 1..Len(top) |-> TxView(top[i])]

\* The "user" object of the /auth/verify and /user/:uid responses.
UserView(uid, doc, remainingDays, transactions) ==
  [uid |-> uid, username |-> doc.username,
   premium |-> PremiumActive(doc, remainingDays),
   premium_expiry |-> doc.premium_expiry,
   remainingDays |-> remainingDays,
   transactions |-> transactions]

NoView == [uid |-> "", username |-> "", premium |-> FALSE,
           premium_expiry |-> Null, remainingDays |-> 0,
           transactions |-> << >>]

\* ------------------------------------------------------------- inputs
\* Access tokens and what the provider's /me answers for each.
Tokens == {"", "tA", "tX"}
ProviderMe(token) ==
  IF token = "tA" THEN [uid |-> "u1", username |-> "alice"]
  ELSE [uid |-> "", username |-> ""]

\* The optional "user" of the /auth/verify body (absent: both fields empty).
Fallbacks == {[uid |-> "", username |-> ""],
              [uid |-> "u2", username |-> "bob"],
              [uid |-> "u1", username |-> ""]}

PaymentIds == {"", "p1", "p2", "p3"}
Txids == {"", "x1"}

\* The payer fields and the status of the provider's details of each
\* payment; its amount is any of Amounts.
ProviderPayment(paymentId) ==
  IF paymentId = "p1"
  THEN [from_uid |-> "u1", actor_uid |-> "u2", user_uid |-> "", status |-> ""]
  ELSE IF paymentId = "p2"
  THEN [from_uid |-> "", actor_uid |-> "u2", user_uid |-> "u1",
        status |-> "pending"]
  ELSE [from_uid |-> "", actor_uid |-> "", user_uid |-> "", status |-> ""]
Amounts == 0..MaxAmount

\* User documents the store may hold when the server starts.
InitExpiries == {0, 1, MaxClock + 1}
InitDocs ==
  {NoDoc, NewUser("alice")}
  \cup {[present |-> TRUE, username |-> "alice", is_premium |-> TRUE,
         premium_expiry |-> e] : e \in InitExpiries}

\* -------------------------------------------------------------- state
VARIABLES
  clock,   \* new Date(), in ticks
  users,   \* the User collection: pi_uid -> document (unique index)
  txs,     \* the Transaction collection, in insertion order
  pc,      \* per request: the await the handler is suspended at
  call,    \* per request: the route and the request's inputs
  loc,     \* per request: the handler's local variables
  resp     \* per request: the response sent

vars == << clock, users, txs, pc, call, loc, resp >>

NoCall == [kind |-> "none", accessToken |-> "", user |-> [uid |-> "", username |-> ""],
           paymentId |-> "", txid |-> "", uid |-> ""]

\* The handler's locals, and records of its history: called (the provider
\* endpoints it has called), writes (the store writes it has made), at (the
\* await it passed last), and for a verification seen0, seen1, seen2 (the
\* number of completion writes made when it read the user, wrote the user
\* and answered) and after (the user's record as its write left it).
NoLoc == [uid |-> "", username |-> "", doc |-> NoDoc, amount |-> 0,
          status |-> "", addDays |-> 0, newExpiry |-> Null, now |-> Null,
          remainingDays |-> 0, createdAt |-> Null,
          called |-> {}, writes |-> 0, at |-> "idle",
          seen0 |-> 0, seen1 |-> 0, seen2 |-> 0, after |-> NoDoc]

NoResp == [code |-> 0, success |-> FALSE, message |-> "", new_expiry |-> Null,
           view |-> NoView]

Fail(code, message) == [NoResp EXCEPT !.code = code, !.message = message]

\* Store writes made so far by payment completions.
CompletionWrites ==
  LET RECURSIVE Sum(_)
      Sum(n) == IF n = 0 THEN 0
                ELSE Sum(n - 1)
                     + (IF call[n].kind = "complete" THEN loc[n].writes ELSE 0)
  IN  Sum(MaxReq)

Init ==
  /\ clock = 0
  /\ \E d \in InitDocs : users = [u \in UIDs |-> IF u = "u1" THEN d ELSE NoDoc]
  /\ txs = << >>
  /\ pc = [r \in Req |-> "idle"]
  /\ call = [r \in Req |-> NoCall]
  /\ loc = [r \in Req |-> NoLoc]
  /\ resp = [r \in Req |-> NoResp]

\* Requests arrive in the order of their numbers.
CanArrive(r) == pc[r] = "idle" /\ (IF r = 1 THEN TRUE ELSE pc[r - 1] # "idle")

\* The handler returns (or its catch block answers) from position pc[r].
Return(r, response, l) ==
  /\ pc' = [pc EXCEPT ![r] = "done"]
  /\ resp' = [resp EXCEPT ![r] = response]
  /\ loc' = [loc EXCEPT ![r] = [l EXCEPT !.at = pc[r]]]

\* The handler suspends at the await named next.
Await(r, next, l) ==
  /\ pc' = [pc EXCEPT ![r] = next]
  /\ loc' = [loc EXCEPT ![r] = [l EXCEPT !.at = pc[r]]]
  /\ UNCHANGED resp

Tick ==
  /\ clock < MaxClock
  /\ clock' = clock + 1
  /\ UNCHANGED << users, txs, pc, call, loc, resp >>

\* ------------------------------------------------- POST /auth/verify
AuthError == Fail(401, "Auth verify failed")

\* The request arrives: accessToken is validated and GET /me is sent.
VerifyRequest(r, accessToken, user) ==
  /\ CanArrive(r)
  /\ call' = [call EXCEPT ![r] = [NoCall EXCEPT !.kind = "verify",
                 !.accessToken = accessToken, !.user = user]]
  /\ IF accessToken = ""
     THEN Return(r, Fail(400, "Missing accessToken"), loc[r])
     ELSE Await(r, "me", [loc[r] EXCEPT !.called = {"me"}])
  /\ UNCHANGED << clock, users, txs >>

\* GET /me is rejected (bad token, network): the catch block answers.
VerifyMeFails(r) ==
  /\ call[r].kind = "verify" /\ pc[r] = "me"
  /\ Return(r, AuthError, loc[r])
  /\ UNCHANGED << clock, users, txs, call >>

\* GET /me answers: uid and username are resolved, User.findOne is sent.
VerifyMe(r) ==
  /\ call[r].kind = "verify" /\ pc[r] = "me"
  /\ LET me       == ProviderMe(call[r].accessToken)
         uid      == VerifyUid(me, call[r].user)
         username == VerifyUsername(me, call[r].user)
         l        == [loc[r] EXCEPT !.uid = uid, !.username = username]
     IN  IF uid = ""
         THEN Return(r, Fail(401, "Invalid token/user"), l)
         ELSE Await(r, "findOne", l)
  /\ UNCHANGED << clock, users, txs, call >>

\* User.findOne answers: a new user is created, an existing one gets the
\* username assigned and saved.
VerifyFindOne(r) ==
  /\ call[r].kind = "verify" /\ pc[r] = "findOne"
  /\ LET doc == users[loc[r].uid]
     IN  IF ~doc.present
         THEN Await(r, "create", [loc[r] EXCEPT !.doc = doc,
                                                !.seen0 = CompletionWrites])
         ELSE Await(r, "save",
                    [loc[r] EXCEPT !.doc = [doc EXCEPT !.username = loc[r].username],
                                   !.seen0 = CompletionWrites])
  /\ UNCHANGED << clock, users, txs, call >>

\* What the handler does once doc is created or saved: remainingDays is
\* computed from the document in hand and Tx.find is sent.
VerifyCompute(r, doc) ==
  Await(r, "txfind",
        [loc[r] EXCEPT !.doc = doc, !.now = clock,
           !.remainingDays = computeRemainingDays(doc.premium_expiry, clock),
           !.writes = @ + 1, !.seen1 = CompletionWrites,
           !.after = users'[loc[r].uid]])

\* The create that leaves the username to the schema default.
VerifyCreate_DefaultName(r) ==
  /\ call[r].kind = "verify" /\ pc[r] = "create"
  /\ IF users[loc[r].uid].present
     THEN /\ Return(r, AuthError, loc[r])
          /\ UNCHANGED users
     ELSE /\ users' = [users EXCEPT ![loc[r].uid] = NewUser(DefaultName)]
          /\ VerifyCompute(r, NewUser(DefaultName))
  /\ UNCHANGED << clock, txs, call >>

\* User.create answers.  pi_uid is unique: creating a uid that exists by
\* now is a duplicate-key error, which the catch block answers.
VerifyCreate(r) ==
  /\ call[r].kind = "verify" /\ pc[r] = "create"
  /\ IF users[loc[r].uid].present
     THEN /\ Return(r, AuthError, loc[r])
          /\ UNCHANGED users
     ELSE /\ users' = [users EXCEPT ![loc[r].uid] = NewUser(loc[r].username)]
          /\ VerifyCompute(r, NewUser(loc[r].username))
  /\ UNCHANGED << clock, txs, call >>

\* The save that writes the whole document read earlier back.
VerifySave_WritesWholeDoc(r) ==
  /\ call[r].kind = "verify" /\ pc[r] = "save"
  /\ users' = [users EXCEPT ![loc[r].uid] = loc[r].doc]
  /\ VerifyCompute(r, loc[r].doc)
  /\ UNCHANGED << clock, txs, call >>

\* doc.save() answers: it writes the modified path, username, only.
VerifySave(r) ==
  /\ call[r].kind = "verify" /\ pc[r] = "save"
  /\ users' = [users EXCEPT ![loc[r].uid].username = loc[r].doc.username]
  /\ VerifyCompute(r, loc[r].doc)
  /\ UNCHANGED << clock, txs, call >>

\* Tx.find answers: the view is composed and sent.
VerifyTxFind(r) ==
  /\ call[r].kind = "verify" /\ pc[r] = "txfind"
  /\ Return(r, [NoResp EXCEPT !.code = 200, !.success = TRUE,
                  !.view = UserView(loc[r].uid, loc[r].doc, loc[r].remainingDays,
                                    TxFind(txs, loc[r].uid))],
            [loc[r] EXCEPT !.seen2 = CompletionWrites])
  /\ UNCHANGED << clock, users, txs, call >>

\* --------------------------------------------- POST /payments/approve
ApproveRequest(r, paymentId) ==
  /\ CanArrive(r)
  /\ call' = [call EXCEPT ![r] = [NoCall EXCEPT !.kind = "approve",
                                                !.paymentId = paymentId]]
  /\ IF paymentId = ""
     THEN Return(r, Fail(400, "Missing paymentId"), loc[r])
     ELSE Await(r, "approve", [loc[r] EXCEPT !.called = {"approve"}])
  /\ UNCHANGED << clock, users, txs >>

ApproveOk(r) ==
  /\ call[r].kind = "approve" /\ pc[r] = "approve"
  /\ Return(r, [NoResp EXCEPT !.code = 200, !.success = TRUE], loc[r])
  /\ UNCHANGED << clock, users, txs, call >>

ApproveRejected(r) ==
  /\ call[r].kind = "approve" /\ pc[r] = "approve"
  /\ Return(r, Fail(400, "Approval failed"), loc[r])
  /\ UNCHANGED << clock, users, txs, call >>

ApproveFails(r) ==
  /\ call[r].kind = "approve" /\ pc[r] = "approve"
  /\ Return(r, Fail(400, "Approval error"), loc[r])
  /\ UNCHANGED << clock, users, txs, call >>

\* -------------------------------------------- POST /payments/complete
CompletionError == Fail(400, "Completion error")

\* The validation that looks at paymentId only.
CompleteRequest_ChecksPaymentIdOnly(r, paymentId, txid) ==
  /\ CanArrive(r)
  /\ call' = [call EXCEPT ![r] = [NoCall EXCEPT !.kind = "complete",
                 !.paymentId = paymentId, !.txid = txid]]
  /\ IF paymentId = ""
     THEN Return(r, Fail(400, "Missing paymentId/txid"), loc[r])
     ELSE Await(r, "post", [loc[r] EXCEPT !.called = {"complete"}])
  /\ UNCHANGED << clock, users, txs >>

\* The request arrives: paymentId and txid are validated and the provider's
\* /complete is called.
CompleteRequest(r, paymentId, txid) ==
  /\ CanArrive(r)
  /\ call' = [call EXCEPT ![r] = [NoCall EXCEPT !.kind = "complete",
                 !.paymentId = paymentId, !.txid = txid]]
  /\ IF paymentId = "" \/ txid = ""
     THEN Return(r, Fail(400, "Missing paymentId/txid"), loc[r])
     ELSE Await(r, "post", [loc[r] EXCEPT !.called = {"complete"}])
  /\ UNCHANGED << clock, users, txs >>

\* The provider's /complete is rejected: the catch block answers.
CompletePostFails(r) ==
  /\ call[r].kind = "complete" /\ pc[r] = "post"
  /\ Return(r, CompletionError, loc[r])
  /\ UNCHANGED << clock, users, txs, call >>

\* The provider's /complete answers with a status outside 200..299.
CompletePostRejected(r) ==
  /\ call[r].kind = "complete" /\ pc[r] = "post"
  /\ Return(r, Fail(400, "Completion failed"), loc[r])
  /\ UNCHANGED << clock, users, txs, call >>

\* The provider's /complete succeeds: the payment details are asked for.
CompletePost(r) ==
  /\ call[r].kind = "complete" /\ pc[r] = "post"
  /\ Await(r, "get", [loc[r] EXCEPT !.called = @ \cup {"payment"}])
  /\ UNCHANGED << clock, users, txs, call >>

\* The payment-detail lookup is rejected: the catch block answers.
CompleteGetFails(r) ==
  /\ call[r].kind = "complete" /\ pc[r] = "get"
  /\ Return(r, CompletionError, loc[r])
  /\ UNCHANGED << clock, users, txs, call >>

\* The handler that records the transaction before it checks the payer.
CompleteGet_RecordsUnresolved(r, amount) ==
  /\ call[r].kind = "complete" /\ pc[r] = "get"
  /\ LET payment == ProviderPayment(call[r].paymentId)
         uid == ResolveUid(payment)
         l   == [loc[r] EXCEPT !.uid = uid, !.amount = amount,
                   !.status = "completed", !.addDays = ComputeGrant(amount)]
     IN  IF uid = ""
         THEN /\ txs' = Append(txs, [pi_uid |-> uid,
                         paymentId |-> call[r].paymentId, amount |-> amount,
                         status |-> "completed", txid |-> call[r].txid,
                         createdAt |-> clock, by |-> r])
              /\ Return(r, Fail(400, "User not resolved from payment"),
                        [loc[r] EXCEPT !.uid = uid, !.amount = amount])
         ELSE /\ Await(r, "findOne", l)
              /\ UNCHANGED txs
  /\ UNCHANGED << clock, users, call >>

\* The payment details arrive: payer, amount and status are resolved, the
\* grant is computed and User.findOne is sent.
CompleteGet(r, amount) ==
  /\ call[r].kind = "complete" /\ pc[r] = "get"
  /\ LET payment == ProviderPayment(call[r].paymentId)
         status == payment.status
         uid == ResolveUid(payment)
         l   == [loc[r] EXCEPT !.uid = uid, !.amount = amount,
                   !.status = IF status # "" THEN status ELSE "completed",
                   !.addDays = ComputeGrant(amount)]
     IN  IF uid = ""
         THEN Return(r, Fail(400, "User not resolved from payment"),
                     [loc[r] EXCEPT !.uid = uid, !.amount = amount])
         ELSE Await(r, "findOne", l)
  /\ UNCHANGED << clock, users, txs, call >>

\* With doc in hand: baseDate and newExpiry are computed and
\* User.updateOne is sent.
CompleteCompute(r, doc, l) ==
  Await(r, "updateOne",
        [l EXCEPT !.doc = doc, !.now = clock,
                  !.newExpiry = NewExpiry(doc, clock, l.addDays)])

\* User.findOne answers: an unseen payer is created first.
CompleteFindOne(r) ==
  /\ call[r].kind = "complete" /\ pc[r] = "findOne"
  /\ LET doc == users[loc[r].uid]
     IN  IF ~doc.present
         THEN Await(r, "create", [loc[r] EXCEPT !.doc = doc])
         ELSE CompleteCompute(r, doc, loc[r])
  /\ UNCHANGED << clock, users, txs, call >>

\* The create of a store without the unique index: it replaces the record.
CompleteCreate_Overwrites(r) ==
  /\ call[r].kind = "complete" /\ pc[r] = "create"
  /\ users' = [users EXCEPT ![loc[r].uid] = NewUser(DefaultName)]
  /\ CompleteCompute(r, NewUser(DefaultName), [loc[r] EXCEPT !.writes = @ + 1])
  /\ UNCHANGED << clock, txs, call >>

\* User.create answers (a duplicate-key error if the uid exists by now).
CompleteCreate(r) ==
  /\ call[r].kind = "complete" /\ pc[r] = "create"
  /\ IF users[loc[r].uid].present
     THEN /\ Return(r, CompletionError, loc[r])
          /\ UNCHANGED users
     ELSE /\ users' = [users EXCEPT ![loc[r].uid] = NewUser(DefaultName)]
          /\ CompleteCompute(r, NewUser(DefaultName),
                             [loc[r] EXCEPT !.writes = @ + 1])
  /\ UNCHANGED << clock, txs, call >>

\* User.updateOne answers: the $set built from the document read earlier
\* is applied to the stored record; Tx.create is sent.
CompleteUpdateOne(r) ==
  /\ call[r].kind = "complete" /\ pc[r] = "updateOne"
  /\ LET set == UpdateSet(loc[r].doc, loc[r].addDays, loc[r].newExpiry)
     IN  users' = [users EXCEPT ![loc[r].uid] =
                     IF @.present
                     THEN [@ EXCEPT !.is_premium = set.is_premium,
                                    !.premium_expiry = set.premium_expiry]
                     ELSE @]
  /\ Await(r, "txcreate", [loc[r] EXCEPT !.writes = @ + 1, !.createdAt = clock])
  /\ UNCHANGED << clock, txs, call >>

\* The Transaction document of Tx.create.
TxDoc(r) == [pi_uid |-> loc[r].uid, paymentId |-> call[r].paymentId,
             amount |-> loc[r].amount, status |-> loc[r].status,
             txid |-> call[r].txid, createdAt |-> loc[r].createdAt, by |-> r]

\* The write that refuses a paymentId the ledger already holds.
CompleteTxCreate_RejectsDuplicate(r) ==
  /\ call[r].kind = "complete" /\ pc[r] = "txcreate"
  /\ IF \E i \in 1..Len(txs) : txs[i].paymentId = call[r].paymentId
     THEN /\ Return(r, Fail(400, "Payment already completed"), loc[r])
          /\ UNCHANGED txs
     ELSE /\ txs' = Append(txs, TxDoc(r))
          /\ Return(r, [NoResp EXCEPT !.code = 200, !.success = TRUE,
                                      !.new_expiry = loc[r].newExpiry],
                    [loc[r] EXCEPT !.writes = @ + 1])
  /\ UNCHANGED << clock, users, call >>

\* The write that keeps one record per paymentId: a record of the same
\* paymentId is replaced instead of a new one appended.
CompleteTxCreate_Upserts(r) ==
  /\ call[r].kind = "complete" /\ pc[r] = "txcreate"
  /\ txs' = IF \E i \in 1..Len(txs) : txs[i].paymentId = call[r].paymentId
            THEN [i \in 1..Len(txs) |->
                    IF txs[i].paymentId = call[r].paymentId
                    THEN TxDoc(r) ELSE txs[i]]
            ELSE Append(txs, TxDoc(r))
  /\ Return(r, [NoResp EXCEPT !.code = 200, !.success = TRUE,
                              !.new_expiry = loc[r].newExpiry],
            [loc[r] EXCEPT !.writes = @ + 1])
  /\ UNCHANGED << clock, users, call >>

\* Tx.create answers: the handler returns the new expiry.
CompleteTxCreate(r) ==
  /\ call[r].kind = "complete" /\ pc[r] = "txcreate"
  /\ txs' = Append(txs, TxDoc(r))
  /\ Return(r, [NoResp EXCEPT !.code = 200, !.success = TRUE,
                              !.new_expiry = loc[r].newExpiry],
            [loc[r] EXCEPT !.writes = @ + 1])
  /\ UNCHANGED << clock, users, call >>

\* ------------------------------------------------------ GET /user/:uid
StatusRequest(r, uid) ==
  /\ CanArrive(r)
  /\ call' = [call EXCEPT ![r] = [NoCall EXCEPT !.kind = "status", !.uid = uid]]
  /\ Await(r, "findOne", [loc[r] EXCEPT !.uid = uid])
  /\ UNCHANGED << clock, users, txs >>

StatusFindOne(r) ==
  /\ call[r].kind = "status" /\ pc[r] = "findOne"
  /\ LET doc == users[loc[r].uid]
     IN  IF ~doc.present
         THEN Return(r, Fail(404, "User not found"), loc[r])
         ELSE Await(r, "txfind",
                [loc[r] EXCEPT !.doc = doc, !.now = clock,
                  !.remainingDays = computeRemainingDays(doc.premium_expiry, clock)])
  /\ UNCHANGED << clock, users, txs, call >>

StatusTxFind(r) ==
  /\ call[r].kind = "status" /\ pc[r] = "txfind"
  /\ Return(r, [NoResp EXCEPT !.code = 200, !.success = TRUE,
                  !.view = UserView(loc[r].uid, loc[r].doc, loc[r].remainingDays,
                                    TxFind(txs, loc[r].uid))],
            loc[r])
  /\ UNCHANGED << clock, users, txs, call >>

\* ------------------------------------------------------ storage errors
StorePcs == {"findOne", "create", "save", "updateOne", "txcreate", "txfind"}

\* What each route's catch block answers.
CatchResponse(kind) ==
  IF kind = "verify" THEN AuthError
  ELSE IF kind = "complete" THEN CompletionError
  ELSE IF kind = "approve" THEN Fail(400, "Approval error")
  ELSE Fail(500, "Server error")

\* The awaited store operation fails (store unavailable, write refused):
\* nothing is written and the route's catch block answers.
StorageFails(r) ==
  /\ pc[r] \in StorePcs
  /\ Return(r, CatchResponse(call[r].kind), loc[r])
  /\ UNCHANGED << clock, users, txs, call >>

\* ---------------------------------------------------------------- spec
Next ==
  \/ Tick
  \/ \E r \in Req :
       \/ \E t \in Tokens, u \in Fallbacks : VerifyRequest(r, t, u)
       \/ VerifyMeFails(r)
       \/ VerifyMe(r)
       \/ VerifyFindOne(r)
       \/ VerifyCreate(r)
       \/ VerifySave(r)
       \/ VerifyTxFind(r)
       \/ \E p \in {"", "p1"} : ApproveRequest(r, p)
       \/ ApproveOk(r)
       \/ ApproveRejected(r)
       \/ ApproveFails(r)
       \/ \E p \in PaymentIds, x \in Txids : CompleteRequest(r, p, x)
       \/ CompletePostFails(r)
       \/ CompletePostRejected(r)
       \/ CompletePost(r)
       \/ CompleteGetFails(r)
       \/ \E a \in Amounts : CompleteGet(r, a)
       \/ CompleteFindOne(r)
       \/ CompleteCreate(r)
       \/ CompleteUpdateOne(r)
       \/ CompleteTxCreate(r)
       \/ \E u \in UIDs : StatusRequest(r, u)
       \/ StatusFindOne(r)
       \/ StatusTxFind(r)
       \/ StorageFails(r)

Spec == Init /\ [][Next]_vars

\* ============================================================== claims
Min(a, b) == IF a <= b THEN a ELSE b

IsDone(r) == pc[r] = "done"
Succeeded(r) == pc[r] = "done" /\ resp[r].code = 200
Completed(r) == call[r].kind = "complete" /\ Succeeded(r)
TxsBy(r) == {i \in 1..Len(txs) : txs[i].by = r}

\* The completion r has resolved its payer and computed its grant.
Granted(r) ==
  /\ call[r].kind = "complete"
  /\ loc[r].uid # ""
  /\ \/ pc[r] \in {"findOne", "create", "updateOne", "txcreate"}
     \/ pc[r] = "done" /\ loc[r].at \in {"findOne", "create", "updateOne", "txcreate"}

\* The step taken is a step of request r.
StepOf(r) == pc'[r] # pc[r]

\* The step taken is the commit (User.updateOne) of completion r.
CommitOf(r) ==
  call[r].kind = "complete" /\ pc[r] = "updateOne" /\ pc'[r] = "txcreate"

\* ---- C1
\* C1: two completions for the same user that each grant 30 days leave the
\* user's premium_expiry at least 60 days after the earlier of the base
\* dates they extended from, however their reads and writes interleave.
C1_NoLostUpdate ==
  \A r1, r2 \in Req :
    ( /\ r1 # r2 /\ Completed(r1) /\ Completed(r2)
      /\ loc[r1].uid = loc[r2].uid
      /\ loc[r1].addDays = 30 /\ loc[r2].addDays = 30 )
    => users[loc[r1].uid].premium_expiry
         >= Min(BaseDate(loc[r1].doc, loc[r1].now),
                BaseDate(loc[r2].doc, loc[r2].now)) + 60 * DayMs

\* ---- C2
\* C2: the commit of a completion that grants d > 0 days turns a stored
\* entitlement that is active (premium, expiry E after the call's current
\* time) into E + d days, and a lapsed or absent one into now + d days.
C2_StackingLaw ==
  [][\A r \in Req :
       (CommitOf(r) /\ loc[r].addDays > 0) =>
         LET cur == users[loc[r].uid]
             now == loc[r].now
             active == cur.is_premium /\ cur.premium_expiry # Null
                       /\ cur.premium_expiry > now
         IN  users'[loc[r].uid].premium_expiry =
               (IF active THEN cur.premium_expiry ELSE now)
               + loc[r].addDays * DayMs]_vars

\* ---- C3
\* C3: the days a completion grants for amount a are floor(a / 2) * 30:
\* 0 for amounts 0 and 1, 30 for 2 and 3, 60 for 4 and 5.
C3_GrantIsBlocksTimes30 ==
  \A r \in Req :
    Granted(r) =>
      LET a == loc[r].amount
          d == loc[r].addDays
      IN  /\ d % 30 = 0
          /\ 2 * (d \div 30) <= a /\ a < 2 * (d \div 30) + 2
          /\ (a \in {0, 1} => d = 0)
          /\ (a \in {2, 3} => d = 30)
          /\ (a \in {4, 5} => d = 60)

\* A completion of amount 5 has succeeded and granted 60 days.
C3_Witness ==
  \E r \in Req : Completed(r) /\ loc[r].amount = 5 /\ loc[r].addDays = 60

\* ---- C4
\* C4: the commit of a completion whose amount is below one block leaves
\* the payer's stored is_premium and premium_expiry as they were just before
\* it, and the completion still appends one transaction with the amount.
C4_SubBlockLeavesEntitlement ==
  /\ [][\A r \in Req :
          (CommitOf(r) /\ loc[r].addDays = 0) =>
            /\ users'[loc[r].uid].is_premium = users[loc[r].uid].is_premium
            /\ users'[loc[r].uid].premium_expiry
                 = users[loc[r].uid].premium_expiry]_vars
  /\ [](\A r \in Req :
          (Completed(r) /\ loc[r].addDays = 0) =>
            /\ Cardinality(TxsBy(r)) = 1
            /\ \A i \in TxsBy(r) : txs[i].amount = loc[r].amount)

\* ---- C5
\* C5: every step of a completion up to and including the resolution of the
\* payer (arrival, the provider's /complete answer, the payment details)
\* leaves the User and the Transaction collection unchanged, so a call that
\* fails at one of them has written nothing.
C5_FailedCompletionWritesNothing ==
  [][\A r \in Req :
       (StepOf(r) /\ call'[r].kind = "complete"
          /\ pc[r] \in {"idle", "post", "get"})
       => (users' = users /\ txs' = txs)]_vars

\* A completion has failed on an unresolved payer while the store holds a
\* user and a transaction.
C5_Witness ==
  \E r \in Req :
    /\ call[r].kind = "complete" /\ IsDone(r)
    /\ resp[r] = Fail(400, "User not resolved from payment")
    /\ Len(txs) > 0
    /\ users["u1"].present

\* ---- C6
\* C6: a completion request that lacks the paymentId or the txid is answered
\* at arrival with the validation error, calls no provider endpoint and
\* changes no user and no transaction record.
C6_ValidationFailsFast ==
  [][\A r \in Req :
       (StepOf(r) /\ pc[r] = "idle" /\ call'[r].kind = "complete"
          /\ (call'[r].paymentId = "" \/ call'[r].txid = ""))
       => /\ pc'[r] = "done"
          /\ resp'[r] = Fail(400, "Missing paymentId/txid")
          /\ loc'[r].called = {}
          /\ users' = users /\ txs' = txs]_vars

\* A completion with a paymentId and no txid has been refused.
C6_Witness ==
  \E r \in Req :
    /\ call[r].kind = "complete" /\ IsDone(r)
    /\ call[r].paymentId # "" /\ call[r].txid = ""
    /\ resp[r].code = 400 /\ loc[r].called = {}

\* ---- C7
\* C7: a completion that answered success has appended exactly one
\* transaction, with its paymentId and its payer; one that failed at
\* validation or at a provider call has appended none; and no step changes
\* or removes a transaction that exists.
C7_OneTransactionPerSuccess ==
  /\ [](\A r \in Req :
          call[r].kind = "complete" =>
            /\ Succeeded(r) =>
                 /\ Cardinality(TxsBy(r)) = 1
                 /\ \A i \in TxsBy(r) :
                      /\ txs[i].paymentId = call[r].paymentId
                      /\ txs[i].pi_uid = loc[r].uid
            /\ (IsDone(r) /\ ~Succeeded(r)
                  /\ loc[r].at \in {"idle", "post", "get"})
                 => TxsBy(r) = {})
  /\ [][/\ Len(txs') >= Len(txs)
        /\ \A i \in 1..Len(txs) : txs'[i] = txs[i]]_vars

\* Two completions of the same paymentId have both succeeded.
C7_Witness ==
  \E r1, r2 \in Req :
    /\ r1 # r2 /\ Completed(r1) /\ Completed(r2)
    /\ call[r1].paymentId = call[r2].paymentId
    /\ Len(txs) = 2

\* ---- C8
\* C8: no step of a verification changes the is_premium or premium_expiry
\* of a user that exists, whatever completions run between its steps.
C8_VerifyKeepsEntitlement ==
  [][\A r \in Req :
       (StepOf(r) /\ call'[r].kind = "verify") =>
         \A u \in UIDs :
           users[u].present =>
             /\ users'[u].present
             /\ users'[u].is_premium = users[u].is_premium
             /\ users'[u].premium_expiry = users[u].premium_expiry]_vars

\* A verification has saved an existing user after a completion committed
\* between its read and its save.
C8_Witness ==
  \E r \in Req :
    /\ call[r].kind = "verify" /\ pc[r] = "txfind" /\ loc[r].at = "save"
    /\ loc[r].seen1 > loc[r].seen0
    /\ ~loc[r].doc.is_premium
    /\ users[loc[r].uid].is_premium
    /\ users[loc[r].uid].username = loc[r].doc.username

\* ---- C9
\* Two verifications with the same credential and fallback, both answered
\* with a view, and no completion write from the first's read of the user
\* to the second's answer.
SameVerify(r1, r2) ==
  /\ r1 # r2
  /\ call[r1].kind = "verify" /\ Succeeded(r1)
  /\ call[r2].kind = "verify" /\ Succeeded(r2)
  /\ call[r1].accessToken = call[r2].accessToken
  /\ call[r1].user = call[r2].user
  /\ loc[r1].seen0 = loc[r1].seen2 /\ loc[r2].seen0 = loc[r2].seen2
  /\ loc[r1].seen0 = loc[r2].seen0

\* C9 as stated: such verifications return views equal in every field but
\* remainingDays and leave the user's record in the same state.
C9_VerifyIdempotent ==
  \A r1, r2 \in Req :
    SameVerify(r1, r2) =>
      /\ [resp[r1].view EXCEPT !.remainingDays = 0]
           = [resp[r2].view EXCEPT !.remainingDays = 0]
      /\ loc[r1].after = loc[r2].after

\* C9 (amended): such verifications return views equal in every field but
\* remainingDays and premium, the two derived from the current time, and
\* leave the user's record in the same state.
C9_VerifyIdempotentButTime ==
  \A r1, r2 \in Req :
    SameVerify(r1, r2) =>
      /\ [resp[r1].view EXCEPT !.remainingDays = 0, !.premium = FALSE]
           = [resp[r2].view EXCEPT !.remainingDays = 0, !.premium = FALSE]
      /\ loc[r1].after = loc[r2].after

\* Two such verifications, the entitlement lapsing between them.
C9_Witness ==
  \E r1, r2 \in Req :
    /\ SameVerify(r1, r2)
    /\ resp[r1].view.premium /\ ~resp[r2].view.premium

\* ---- C10
\* C10: in every view returned by /auth/verify or /user/:uid, premium is
\* true exactly when the record fetched from the store has is_premium true
\* and a premium_expiry after the current time; a fetched record with
\* is_premium true and an expiry not after the current time is reported as
\* not premium with remainingDays 0.
C10_PremiumIsDerived ==
  \A r \in Req :
    (call[r].kind \in {"verify", "status"} /\ Succeeded(r)) =>
      LET doc == loc[r].doc
          view == resp[r].view
          inFuture == doc.premium_expiry # Null /\ doc.premium_expiry > loc[r].now
      IN  /\ view.premium = (doc.is_premium /\ inFuture)
          /\ view.premium_expiry = doc.premium_expiry
          /\ (doc.is_premium /\ ~inFuture) =>
               (~view.premium /\ view.remainingDays = 0)

\* A view has been returned for a record holding is_premium = true and an
\* expiry in the past.
C10_Witness ==
  \E r \in Req :
    /\ call[r].kind \in {"verify", "status"} /\ Succeeded(r)
    /\ loc[r].doc.is_premium
    /\ loc[r].doc.premium_expiry # Null
    /\ loc[r].doc.premium_expiry < loc[r].now
    /\ ~resp[r].view.premium

\* ------------------------------------------- computeRemainingDays alone
\* RemSpec: one stored expiry, drawn at the start, is evaluated by
\* computeRemainingDays again and again while the clock advances; loc[1]
\* holds the latest evaluation (remainingDays) and its time (now).
RemExpiries == {Null} \cup 0..MaxRemExpiry

RemDoc(e) == [present |-> TRUE, username |-> DefaultName,
              is_premium |-> e # Null, premium_expiry |-> e]

RemEvaluated(e, now) ==
  [NoLoc EXCEPT !.uid = "u1", !.doc = RemDoc(e), !.now = now,
                !.remainingDays = computeRemainingDays(e, now)]

RemInit ==
  /\ clock = 0
  /\ \E e \in RemExpiries :
       /\ users = [u \in UIDs |-> IF u = "u1" THEN RemDoc(e) ELSE NoDoc]
       /\ loc = [r \in Req |-> IF r = 1 THEN RemEvaluated(e, 0) ELSE NoLoc]
  /\ txs = << >>
  /\ pc = [r \in Req |-> "idle"]
  /\ call = [r \in Req |-> NoCall]
  /\ resp = [r \in Req |-> NoResp]

RemTick ==
  /\ clock < MaxRemClock
  /\ clock' = clock + 1
  /\ UNCHANGED << users, txs, pc, call, loc, resp >>

RemEval ==
  /\ loc' = [loc EXCEPT ![1] = RemEvaluated(users["u1"].premium_expiry, clock)]
  /\ UNCHANGED << clock, users, txs, pc, call, resp >>

RemNext == RemTick \/ RemEval

RemSpec == RemInit /\ [][RemNext]_vars

\* ---- C11
\* C11: for a fixed expiry, a later evaluation of computeRemainingDays never
\* returns more than an earlier one; the result is the ceiling of
\* (expiry - now) in whole days while expiry > now, 0 for every
\* expiry <= now and 0 for an absent expiry.
C11_RemainingDays ==
  /\ [](LET e == loc[1].doc.premium_expiry
            now == loc[1].now
            d == loc[1].remainingDays
        IN  /\ e = Null => d = 0
            /\ (e # Null /\ e <= now) => d = 0
            /\ (e # Null /\ e > now) =>
                 (d >= 1 /\ DayMs * (d - 1) < e - now /\ e - now <= DayMs * d))
  /\ [][loc'[1].remainingDays <= loc[1].remainingDays]_vars

\* An evaluation made after the clock advanced returned a rounded-up
\* number of days, and the expiry has passed since.
C11_Witness ==
  /\ loc[1].now > 0
  /\ loc[1].doc.premium_expiry > loc[1].now
  /\ (loc[1].doc.premium_expiry - loc[1].now) % DayMs # 0
  /\ loc[1].remainingDays >= 2
  /\ clock >= loc[1].doc.premium_expiry

\* ---- C12
\* The completion r failed on a store write of its commit (User.updateOne
\* or Tx.create), after the provider confirmed the payment.
CommitWriteFailed(r) ==
  /\ call[r].kind = "complete" /\ IsDone(r) /\ ~Succeeded(r)
  /\ loc[r].at \in {"updateOne", "txcreate"}

\* The completion r failed on a call to the provider.
ProviderCallFailed(r) ==
  /\ call[r].kind = "complete" /\ IsDone(r) /\ ~Succeeded(r)
  /\ loc[r].at \in {"post", "get"}

\* C12: the failure answered when a store write of the commit fails after
\* the provider confirmed the payment differs from the failure answered when
\* a provider call fails.
C12_StorageFailureIsDistinct ==
  \A r1, r2 \in Req :
    (CommitWriteFailed(r1) /\ ProviderCallFailed(r2)) => resp[r1] # resp[r2]

\* ---- C13
\* C13: a verification whose /me answer holds an identifier keys the record
\* by it, and one whose /me answer holds a display name stores and returns
\* that name; the caller's user.uid and user.username serve only when the
\* provider's field is missing.
C13_ProviderIsAuthoritative ==
  \A r \in Req :
    (call[r].kind = "verify" /\ Succeeded(r)) =>
      LET me == ProviderMe(call[r].accessToken)
      IN  /\ me.uid # "" =>
               (loc[r].uid = me.uid /\ resp[r].view.uid = me.uid)
          /\ me.username # "" =>
               /\ loc[r].after.username = me.username
               /\ resp[r].view.username = me.username

\* ---- C14
\* The completion r found no record of its payer and created it.
CreatedPayer(r) == Completed(r) /\ loc[r].writes = 3

\* C14: a completion of amount 2 whose payer has no record creates the
\* record with the default display name, commits is_premium = true and
\* premium_expiry = now + 30 days to it, and, once it has succeeded, has
\* recorded exactly one transaction, for that user.
C14_NewPayerScenario ==
  /\ [][\A r \in Req :
          (call[r].kind = "complete" /\ loc[r].amount = 2) =>
            /\ (pc[r] = "create" /\ pc'[r] = "updateOne") =>
                 users'[loc[r].uid] = NewUser("Pioneer")
            /\ (CommitOf(r) /\ loc[r].at = "create") =>
                 /\ users'[loc[r].uid].is_premium
                 /\ users'[loc[r].uid].premium_expiry
                      = loc[r].now + 30 * DayMs]_vars
  /\ [](\A r \in Req :
          (CreatedPayer(r) /\ loc[r].amount = 2) =>
            /\ Cardinality(TxsBy(r)) = 1
            /\ \A i \in TxsBy(r) :
                 txs[i].pi_uid = loc[r].uid /\ txs[i].amount = 2)

\* A completion of amount 2 has created its payer and succeeded, and the
\* store holds the payer as it left it, with its one transaction.
C14_Witness ==
  \E r \in Req :
    /\ CreatedPayer(r) /\ loc[r].amount = 2
    /\ users[loc[r].uid] = [present |-> TRUE, username |-> "Pioneer",
                            is_premium |-> TRUE,
                            premium_expiry |-> loc[r].now + 30 * DayMs]
    /\ Len(SelectSeq(txs, LAMBDA t : t.pi_uid = loc[r].uid)) = 1

\* ---- C15
\* C15: no step of a completion changes a user's stored is_premium from
\* true to false, whatever the amount and the interleaving.
C15_FlagNeverCleared ==
  [][\A r \in Req :
       (StepOf(r) /\ call'[r].kind = "complete") =>
         \A u \in UIDs : users[u].is_premium => users'[u].is_premium]_vars

\* ---- C16
\* C16: a completion of a paymentId that already has a transaction of an
\* earlier call is carried out like any other.  Its commit, when it grants
\* days, sets is_premium and, having read the expiry the earlier call
\* stored, stores that expiry plus its own grant; its Tx.create appends a
\* second record of the same paymentId and the call answers success (or
\* the store fails and the catch block answers).
C16_RetryCreditsAgain ==
  [][\A r \in Req : \A i \in 1..Len(txs) :
       (call[r].kind = "complete" /\ txs[i].paymentId = call[r].paymentId
          /\ txs[i].by # r) =>
         LET first == txs[i].by
             uid == loc[r].uid
         IN  /\ (CommitOf(r) /\ loc[r].addDays > 0) =>
                  /\ users'[uid].is_premium
                  /\ ( /\ loc[first].uid = uid
                       /\ loc[first].addDays > 0
                       /\ loc[r].doc.premium_expiry = loc[first].newExpiry
                       /\ loc[first].newExpiry > loc[r].now )
                     => users'[uid].premium_expiry
                          = loc[first].newExpiry + loc[r].addDays * DayMs
             /\ (pc[r] = "txcreate" /\ StepOf(r)) =>
                  \/ resp'[r] = CompletionError /\ txs' = txs
                  \/ /\ resp'[r].code = 200
                     /\ Len(txs') = Len(txs) + 1
                     /\ txs'[Len(txs')].paymentId = call[r].paymentId]_vars

\* A payment granting 30 days was completed twice, the second call after
\* the first: two records of the paymentId, the expiry 60 days on.
C16_Witness ==
  \E r1, r2 \in Req :
    /\ r1 # r2 /\ Completed(r1) /\ Completed(r2)
    /\ call[r1].paymentId = call[r2].paymentId
    /\ loc[r1].uid = loc[r2].uid
    /\ loc[r1].addDays = 30 /\ loc[r2].addDays = 30
    /\ loc[r2].doc.premium_expiry = loc[r1].newExpiry
    /\ users[loc[r1].uid].premium_expiry = loc[r1].newExpiry + 30 * DayMs
    /\ Len(txs) = 2 /\ txs[1].paymentId = txs[2].paymentId

\* ---- C17
\* C17: the new_expiry a successful completion returns is the
\* premium_expiry its commit stored for the payer, for every amount and for
\* an active, lapsed or absent entitlement.
C17_ReturnedIsStored ==
  /\ [](\A r \in Req : Completed(r) => resp[r].new_expiry = loc[r].newExpiry)
  /\ [][\A r \in Req :
          CommitOf(r) =>
            users'[loc[r].uid].premium_expiry = loc[r].newExpiry]_vars

\* ---- C18
\* C18: no step moves a user's stored premium_expiry to an earlier time or
\* back to absent: each write stores a value at least the one stored
\* immediately before it (absent counting as earlier than every time).
C18_ExpiryNeverMovesBack ==
  [][\A u \in UIDs : users'[u].premium_expiry >= users[u].premium_expiry]_vars

\* ---- C19
\* C19: every stored user record has a premium_expiry exactly when its
\* stored is_premium is true.
C19_ExpiryIffFlag ==
  \A u \in UIDs :
    users[u].present => ((users[u].premium_expiry # Null) <=> users[u].is_premium)

\* Two completions of one payer both read the unentitled record, one
\* granting days and one granting none; the one granting none committed
\* last, and the record is back to (false, no expiry).
C19_Witness ==
  \E r1, r2 \in Req :
    /\ Completed(r1) /\ Completed(r2)
    /\ loc[r1].uid = loc[r2].uid
    /\ loc[r1].addDays > 0 /\ loc[r2].addDays = 0
    /\ ~loc[r1].doc.is_premium /\ ~loc[r2].doc.is_premium
    /\ ~users[loc[r1].uid].is_premium
    /\ users[loc[r1].uid].premium_expiry = Null

\* ---- C20
\* C20: a uid has one user record.  A User.create that finds the uid
\* present fails its request and leaves every record as it is; a record
\* comes into being only by the User.create of a request that read the uid
\* as absent, and a record once present stays present.
C20_OneRecordPerUid ==
  [][/\ \A r \in Req :
          (pc[r] = "create" /\ StepOf(r) /\ users[loc[r].uid].present) =>
            /\ users' = users
            /\ pc'[r] = "done"
            /\ resp'[r].code # 200 /\ ~resp'[r].success
     /\ \A u \in UIDs :
          /\ users[u].present => users'[u].present
          /\ (~users[u].present /\ users'[u].present) =>
               \E r \in Req : /\ pc[r] = "create" /\ loc[r].uid = u
                              /\ ~loc[r].doc.present
                              /\ pc'[r] \notin {"create", "done"}]_vars

\* A completion and a verification both read the payer as absent; the
\* completion created the record and finished, the verification's create
\* failed its request, and the record is the one the completion left.
C20_Witness ==
  \E r1, r2 \in Req :
    /\ CreatedPayer(r1)
    /\ call[r2].kind = "verify" /\ loc[r2].uid = loc[r1].uid
    /\ pc[r2] = "done" /\ loc[r2].at = "create" /\ resp[r2] = AuthError
    /\ users[loc[r1].uid].username = DefaultName
    /\ users[loc[r1].uid].premium_expiry = loc[r1].newExpiry
====
